---- MODULE Spec2Model ----
(***************************************************************************)
(* Authentication subsystem of the warehouse API: JWTService (token        *)
(* issue / verify / refresh), AuthMiddleware (request gatekeeping),        *)
(* GoogleOAuthService (code exchange, profile fetch, domain check) and     *)
(* AuthController.handleOAuthCallback (login-flow orchestration).          *)
(*                                                                         *)
(* Strings are modelled structurally.  An e-mail address is the sequence   *)
(* of the pieces that String.split('@') yields, so "a@b@c" is              *)
(* <<"a","b","c">>, "abc" is <<"abc">> and "" is <<"">>.  A token string   *)
(* is an optional "Bearer " prefix followed by a core that is empty,       *)
(* blank, not a JWT at all, or a JWT (header, claims, signature).  An HMAC *)
(* signature is the pair (key, signed content): two signatures are equal   *)
(* exactly when key and content are.  Time is counted in abstract seconds. *)
(***************************************************************************)
EXTENDS Integers, Sequences, FiniteSets, TLC

\* ---------------------------------------------------------------- bounds
MaxTime == 3
MaxIssued == 2
MaxRefresh == 3
MaxMade == 2

\* ------------------------------------------------------- configuration
AllowedDomain == "wareongo.com"
FrontendUrl == "http://localhost:3000"
Issuer == "warehouse-api"
Audience == "warehouse-frontend"
ServerSecret == "JWT_SECRET"
DefaultTTL == 2
OverrideTTL == 3

\* ------------------------------------------------------------ sentinels
Undef == "<undefined>"
Thrown == "<throws>"
EmptyEmail == <<"">>

\* --------------------------------------------------------- input spaces
Ids == {"", "u1"}
Names == {Undef, "Ann"}
Pictures == {"pic"}
Emails ==
  { EmptyEmail,
    <<"abc">>,
    <<"a", "">>,
    <<"a", "wareongo.com">>,
    <<"a", "WareOnGo.com">>,
    <<"a", "other.com">>,
    <<"a", "wareongo.com", "evil.com">>,
    <<"a", "evil.com", "wareongo.com">> }

NullPayload ==
  [obj |-> FALSE, id |-> "", email |-> EmptyEmail, name |-> Undef, picture |-> Undef]

\* name and picture are optional and independent of the e-mail: the payloads
\* vary the name along with the e-mail instead of taking the full product
NameFor(e) == IF e = <<"a", "wareongo.com">> THEN Undef ELSE "Ann"

Payloads ==
  { [obj |-> TRUE, id |-> i, email |-> e, name |-> NameFor(e), picture |-> p] :
      i \in Ids, e \in Emails, p \in Pictures }
  \cup {NullPayload}

\* expiresIn argument of generateToken: null (use the configured default),
\* an explicit span, or a value jsonwebtoken cannot parse
ExpiresInArgs == {"null", "override", "bad"}

\* the calls of generateToken: every payload with the default span, and the
\* payloads of one address with an explicit span as well
GenerateArgs ==
  { <<p, e>> \in Payloads \X ExpiresInArgs :
      e = "null" \/ p.email = <<"a", "wareongo.com">> }

\* ------------------------------------------------------ string helpers
\* String.prototype.toLowerCase on the domain strings of the model
ToLowerCase(s) ==
  CASE s = "WareOnGo.com" -> "wareongo.com"
    [] OTHER -> s

\* ------------------------------------------------- JWTService helpers
\* extractDomain: throws unless the e-mail is non-empty and contains '@',
\* otherwise the second piece of split('@')
extractDomain(email) ==
  IF email = EmptyEmail \/ Len(email) < 2 THEN Thrown ELSE email[2]

\* validateEmailDomain: "false" / "true", or "throw" when extractDomain throws
validateEmailDomain(email) ==
  IF email = EmptyEmail THEN "false"
  ELSE IF extractDomain(email) = Thrown THEN "throw"
  ELSE IF ToLowerCase(extractDomain(email)) = ToLowerCase(AllowedDomain)
       THEN "true" ELSE "false"

\* ------------------------------------------------------ token structure
ContentFields ==
  {"alg", "id", "email", "name", "picture", "domain", "iss", "aud", "iat", "nbf",
   "exp"}

Content(t) == [f \in ContentFields |-> t[f]]

NoContent ==
  [alg |-> "", id |-> "", email |-> EmptyEmail, name |-> Undef, picture |-> Undef,
   domain |-> "", iss |-> "", aud |-> "", iat |-> 0, nbf |-> 0, exp |-> 0]

\* the empty third segment of an unsigned token
NoSig == [key |-> "", over |-> NoContent]

NoJwt ==
  [alg |-> "", id |-> "", email |-> EmptyEmail, name |-> Undef, picture |-> Undef,
   domain |-> "", iss |-> "", aud |-> "", iat |-> 0, nbf |-> 0, exp |-> 0,
   sig |-> NoSig]

\* HMAC over header and claims with the given key
Hmac(key, content) == [key |-> key, over |-> content]

\* result of a failing / succeeding service call
Err(code, status) ==
  [ok |-> FALSE, code |-> code, status |-> status, token |-> NoJwt]
Ok(t) ==
  [ok |-> TRUE, code |-> "", status |-> 0, token |-> t]

\* the span jsonwebtoken derives from the expiresIn option
TtlOf(expiresIn) ==
  CASE expiresIn = "null" -> DefaultTTL
    [] expiresIn = "override" -> OverrideTTL
    [] OTHER -> 0

\* jwt.sign that leaves the picture claim out of the signed payload
jwtSign_DropsPicture(tokenPayload, secretSet, expiresIn, clock) ==
  IF ~secretSet \/ expiresIn = "bad" THEN Err(Thrown, 0)
  ELSE LET c == [alg |-> "HS256",
                 id |-> tokenPayload.id, email |-> tokenPayload.email,
                 name |-> tokenPayload.name, picture |-> Undef,
                 domain |-> tokenPayload.domain,
                 iss |-> tokenPayload.iss, aud |-> tokenPayload.aud,
                 iat |-> clock, nbf |-> 0, exp |-> clock + TtlOf(expiresIn)]
       IN Ok([alg |-> c.alg, id |-> c.id, email |-> c.email, name |-> c.name,
              picture |-> c.picture, domain |-> c.domain, iss |-> c.iss,
              aud |-> c.aud, iat |-> c.iat, nbf |-> c.nbf, exp |-> c.exp,
              sig |-> Hmac(ServerSecret, c)])

\* jwt.sign(tokenPayload, secret, {expiresIn, algorithm:'HS256'}): throws
\* without a secret or with an unparseable span, else stamps iat / exp and signs
jwtSign(tokenPayload, secretSet, expiresIn, clock) ==
  IF ~secretSet \/ expiresIn = "bad" THEN Err(Thrown, 0)
  ELSE LET c == [alg |-> "HS256",
                 id |-> tokenPayload.id, email |-> tokenPayload.email,
                 name |-> tokenPayload.name, picture |-> tokenPayload.picture,
                 domain |-> tokenPayload.domain,
                 iss |-> tokenPayload.iss, aud |-> tokenPayload.aud,
                 iat |-> clock, nbf |-> 0, exp |-> clock + TtlOf(expiresIn)]
       IN Ok([alg |-> c.alg, id |-> c.id, email |-> c.email, name |-> c.name,
              picture |-> c.picture, domain |-> c.domain, iss |-> c.iss,
              aud |-> c.aud, iat |-> c.iat, nbf |-> c.nbf, exp |-> c.exp,
              sig |-> Hmac(ServerSecret, c)])

\* generateToken without its domain validation
generateToken_NoDomainCheck(payload, expiresIn, secretSet, clock) ==
  IF ~payload.obj THEN Err("INVALID_PAYLOAD", 400)
  ELSE IF payload.id = "" \/ payload.email = EmptyEmail
       THEN Err("MISSING_REQUIRED_FIELDS", 400)
  ELSE IF validateEmailDomain(payload.email) = "throw"
       THEN Err("TOKEN_GENERATION_ERROR", 500)
  ELSE LET tokenPayload ==
             [id |-> payload.id, email |-> payload.email, name |-> payload.name,
              picture |-> payload.picture, domain |-> extractDomain(payload.email),
              iss |-> Issuer, aud |-> Audience]
           signed == jwtSign(tokenPayload, secretSet, expiresIn, clock)
       IN IF signed.ok THEN signed ELSE Err("TOKEN_SIGNING_ERROR", 500)

\* JWTService.generateToken(payload, expiresIn)
generateToken(payload, expiresIn, secretSet, clock) ==
  IF ~payload.obj THEN Err("INVALID_PAYLOAD", 400)
  ELSE IF payload.id = "" \/ payload.email = EmptyEmail
       THEN Err("MISSING_REQUIRED_FIELDS", 400)
  ELSE IF validateEmailDomain(payload.email) = "throw"
       THEN Err("TOKEN_GENERATION_ERROR", 500)
  ELSE IF validateEmailDomain(payload.email) = "false"
       THEN Err("INVALID_DOMAIN", 403)
  ELSE LET tokenPayload ==
             [id |-> payload.id, email |-> payload.email, name |-> payload.name,
              picture |-> payload.picture, domain |-> extractDomain(payload.email),
              iss |-> Issuer, aud |-> Audience]
           signed == jwtSign(tokenPayload, secretSet, expiresIn, clock)
       IN IF signed.ok THEN signed ELSE Err("TOKEN_SIGNING_ERROR", 500)

\* getJWTErrorCode: jsonwebtoken error name -> service error code
getJWTErrorCode(name) ==
  CASE name = "TokenExpiredError" -> "TOKEN_EXPIRED"
    [] name = "JsonWebTokenError" -> "INVALID_TOKEN"
    [] name = "NotBeforeError" -> "TOKEN_NOT_ACTIVE"
    [] OTHER -> "TOKEN_VERIFICATION_ERROR"

\* jwt.verify accepting a token in the very second it expires
jwtVerify_ExpiryOffByOne(str, secretSet, clock) ==
  LET t == str.jwt IN
  IF str.form # "jwt" THEN "JsonWebTokenError"
  ELSE IF t.sig = NoSig /\ secretSet THEN "JsonWebTokenError"
  ELSE IF t.sig # NoSig /\ ~secretSet THEN "JsonWebTokenError"
  ELSE IF t.alg # "HS256" THEN "JsonWebTokenError"
  ELSE IF t.sig # Hmac(ServerSecret, Content(t)) THEN "JsonWebTokenError"
  ELSE IF t.nbf > clock THEN "NotBeforeError"
  ELSE IF clock > t.exp THEN "TokenExpiredError"
  ELSE IF t.aud # Audience THEN "JsonWebTokenError"
  ELSE IF t.iss # Issuer THEN "JsonWebTokenError"
  ELSE "ok"

\* jwt.verify that only decodes: no signature comparison
jwtVerify_NoSignatureCheck(str, secretSet, clock) ==
  LET t == str.jwt IN
  IF str.form # "jwt" THEN "JsonWebTokenError"
  ELSE IF t.sig = NoSig /\ secretSet THEN "JsonWebTokenError"
  ELSE IF t.sig # NoSig /\ ~secretSet THEN "JsonWebTokenError"
  ELSE IF t.alg # "HS256" THEN "JsonWebTokenError"
  ELSE IF t.nbf > clock THEN "NotBeforeError"
  ELSE IF clock >= t.exp THEN "TokenExpiredError"
  ELSE IF t.aud # Audience THEN "JsonWebTokenError"
  ELSE IF t.iss # Issuer THEN "JsonWebTokenError"
  ELSE "ok"

\* jwt.verify(cleanToken, secret, {algorithms:['HS256'], audience, issuer}):
\* the name of the error it throws, or "ok".  Order of jsonwebtoken's checks:
\* shape, signature presence, algorithm, signature, not-before, expiry,
\* audience, issuer.  jwt.sign sets no nbf claim; nbf = 0 stands for its absence.
jwtVerify(str, secretSet, clock) ==
  LET t == str.jwt IN
  IF str.form # "jwt" THEN "JsonWebTokenError"
  ELSE IF t.sig = NoSig /\ secretSet THEN "JsonWebTokenError"
  ELSE IF t.sig # NoSig /\ ~secretSet THEN "JsonWebTokenError"
  ELSE IF t.alg # "HS256" THEN "JsonWebTokenError"
  ELSE IF t.sig # Hmac(ServerSecret, Content(t)) THEN "JsonWebTokenError"
  ELSE IF t.nbf > clock THEN "NotBeforeError"
  ELSE IF clock >= t.exp THEN "TokenExpiredError"
  ELSE IF t.aud # Audience THEN "JsonWebTokenError"
  ELSE IF t.iss # Issuer THEN "JsonWebTokenError"
  ELSE "ok"

\* JWTService.verifyToken(token)
verifyToken(str, secretSet, clock) ==
  IF str.form = "null" \/ (str.form = "empty" /\ ~str.bearer)
  THEN Err("INVALID_TOKEN_FORMAT", 400)
  ELSE IF str.form \in {"empty", "blank"} THEN Err("EMPTY_TOKEN", 400)
  ELSE LET v == jwtVerify(str, secretSet, clock)
           decoded == str.jwt
       IN IF v # "ok"
          THEN Err(getJWTErrorCode(v),
                   IF getJWTErrorCode(v) = "TOKEN_EXPIRED" THEN 401 ELSE 400)
          ELSE IF decoded.id = "" \/ decoded.email = EmptyEmail
               THEN Err("INVALID_TOKEN_PAYLOAD", 400)
          ELSE IF validateEmailDomain(decoded.email) = "throw"
               THEN Err("TOKEN_VERIFICATION_ERROR", 400)
          ELSE IF validateEmailDomain(decoded.email) = "false"
               THEN Err("INVALID_DOMAIN", 403)
          ELSE Ok(decoded)

\* the decoded claims without iat / exp / iss / aud, as refreshToken passes them
\* on (the domain claim travels along but generateToken recomputes it)
UserPayload(decoded) ==
  [obj |-> TRUE, id |-> decoded.id, email |-> decoded.email,
   name |-> decoded.name, picture |-> decoded.picture]

\* refreshToken wrapping every error of verifyToken as TOKEN_REFRESH_ERROR
refreshToken_WrapsErrors(str, secretSet, clock) ==
  LET v == verifyToken(str, secretSet, clock) IN
  IF ~v.ok THEN Err("TOKEN_REFRESH_ERROR", 400)
  ELSE generateToken(UserPayload(v.token), "null", secretSet, clock)

\* refreshToken handing the decoded e-mail on without the other user fields
refreshToken_DropsName(str, secretSet, clock) ==
  LET v == verifyToken(str, secretSet, clock) IN
  IF ~v.ok THEN v
  ELSE generateToken([UserPayload(v.token) EXCEPT !.name = Undef], "null",
                     secretSet, clock)

\* refreshToken that keeps the life span of the token presented: the new
\* token is stamped with the old token's iat and so expires when that did
refreshToken_KeepsExpiry(str, secretSet, clock) ==
  LET v == verifyToken(str, secretSet, clock) IN
  IF ~v.ok THEN v
  ELSE generateToken(UserPayload(v.token), "null", secretSet, v.token.iat)

\* JWTService.refreshToken(token): verify, drop iat/exp/iss/aud, issue anew
refreshToken(str, secretSet, clock) ==
  LET v == verifyToken(str, secretSet, clock) IN
  IF ~v.ok THEN v
  ELSE generateToken(UserPayload(v.token), "null", secretSet, clock)

\* ------------------------------------------------------ AuthMiddleware
NoStr == [form |-> "null", bearer |-> FALSE, jwt |-> NoJwt]

NoHeader == [present |-> FALSE, basic |-> FALSE, str |-> NoStr]

\* extractTokenFromHeader(req): null without a header (or with an empty one);
\* the rest after "Bearer "; the header itself when it has no space; else null
extractTokenFromHeader(h) ==
  IF ~h.present THEN NoStr
  ELSE IF h.str.bearer /\ ~h.basic THEN [h.str EXCEPT !.bearer = FALSE]
  ELSE IF h.basic \/ h.str.form \in {"empty", "blank"} THEN NoStr
  ELSE h.str

NoUser ==
  [state |-> "unset", id |-> "", email |-> EmptyEmail, name |-> Undef,
   picture |-> Undef, domain |-> "", isAuthenticated |-> FALSE]

NoTokenInfo == [set |-> FALSE, issuedAt |-> 0, expiresAt |-> 0]

NotCalled == Err("<not called>", 0)

\* sendUnauthorizedResponse / sendForbiddenResponse: one JSON response
sendUnauthorizedResponse(code) == [kind |-> "json", status |-> 401, code |-> code]
sendForbiddenResponse(code) == [kind |-> "json", status |-> 403, code |-> code]

\* AuthMiddleware.handleAuthenticationError(error, res)
mwHandleAuthenticationError(err) ==
  CASE err.code = "TOKEN_EXPIRED" -> sendUnauthorizedResponse("TOKEN_EXPIRED")
    [] err.code \in {"INVALID_TOKEN", "INVALID_TOKEN_FORMAT", "INVALID_TOKEN_PAYLOAD"}
         -> sendUnauthorizedResponse("INVALID_TOKEN")
    [] err.code = "EMPTY_TOKEN" -> sendUnauthorizedResponse("MISSING_TOKEN")
    [] err.code = "INVALID_DOMAIN" -> sendForbiddenResponse("DOMAIN_RESTRICTED")
    [] err.code = "TOKEN_NOT_ACTIVE" -> sendUnauthorizedResponse("TOKEN_NOT_ACTIVE")
    [] OTHER -> sendUnauthorizedResponse("AUTH_FAILED")

\* authenticateJWT with the identity attached before verification and the
\* error path falling through to next()
authenticateJWT_FallsThrough(h, secretSet, clock) ==
  LET token == extractTokenFromHeader(h)
      missing == token = NoStr \/ (token.form = "empty" /\ ~token.bearer)
      userPayload == verifyToken(token, secretSet, clock)
  IN IF missing
     THEN [verify |-> NotCalled, user |-> NoUser, tokenInfo |-> NoTokenInfo,
           nextCalls |-> 0, responses |-> <<sendUnauthorizedResponse("UNAUTHORIZED")>>]
     ELSE IF userPayload.ok
     THEN [verify |-> userPayload,
           user |-> [state |-> "identity", id |-> userPayload.token.id,
                     email |-> userPayload.token.email, name |-> userPayload.token.name,
                     picture |-> userPayload.token.picture,
                     domain |-> userPayload.token.domain, isAuthenticated |-> TRUE],
           tokenInfo |-> [set |-> TRUE, issuedAt |-> userPayload.token.iat,
                          expiresAt |-> userPayload.token.exp],
           nextCalls |-> 1, responses |-> <<>>]
     ELSE [verify |-> userPayload, user |-> NoUser, tokenInfo |-> NoTokenInfo,
           nextCalls |-> 1, responses |-> <<mwHandleAuthenticationError(userPayload)>>]

\* AuthMiddleware.authenticateJWT(req, res, next): what the request looks like
\* when the middleware returns
authenticateJWT(h, secretSet, clock) ==
  LET token == extractTokenFromHeader(h)
      missing == token = NoStr \/ (token.form = "empty" /\ ~token.bearer)
      userPayload == verifyToken(token, secretSet, clock)
  IN IF missing
     THEN [verify |-> NotCalled, user |-> NoUser, tokenInfo |-> NoTokenInfo,
           nextCalls |-> 0, responses |-> <<sendUnauthorizedResponse("UNAUTHORIZED")>>]
     ELSE IF userPayload.ok
     THEN [verify |-> userPayload,
           user |-> [state |-> "identity", id |-> userPayload.token.id,
                     email |-> userPayload.token.email, name |-> userPayload.token.name,
                     picture |-> userPayload.token.picture,
                     domain |-> userPayload.token.domain, isAuthenticated |-> TRUE],
           tokenInfo |-> [set |-> TRUE, issuedAt |-> userPayload.token.iat,
                          expiresAt |-> userPayload.token.exp],
           nextCalls |-> 1, responses |-> <<>>]
     ELSE [verify |-> userPayload, user |-> NoUser, tokenInfo |-> NoTokenInfo,
           nextCalls |-> 0, responses |-> <<mwHandleAuthenticationError(userPayload)>>]

\* req.user = null
NullUser == [NoUser EXCEPT !.state = "null"]

\* optionalAuthentication answering 401 when the token does not verify
optionalAuthentication_Rejects(h, secretSet, clock) ==
  LET token == extractTokenFromHeader(h)
      missing == token = NoStr \/ (token.form = "empty" /\ ~token.bearer)
  IN IF missing
     THEN [verify |-> NotCalled, user |-> NullUser, tokenInfo |-> NoTokenInfo,
           nextCalls |-> 1, responses |-> <<>>]
     ELSE authenticateJWT(h, secretSet, clock)

\* AuthMiddleware.optionalAuthentication(req, res, next)
optionalAuthentication(h, secretSet, clock) ==
  LET token == extractTokenFromHeader(h)
      missing == token = NoStr \/ (token.form = "empty" /\ ~token.bearer)
      userPayload == verifyToken(token, secretSet, clock)
  IN IF missing
     THEN [verify |-> NotCalled, user |-> NullUser, tokenInfo |-> NoTokenInfo,
           nextCalls |-> 1, responses |-> <<>>]
     ELSE IF userPayload.ok
     THEN [verify |-> userPayload,
           user |-> [state |-> "identity", id |-> userPayload.token.id,
                     email |-> userPayload.token.email, name |-> userPayload.token.name,
                     picture |-> userPayload.token.picture,
                     domain |-> userPayload.token.domain, isAuthenticated |-> TRUE],
           tokenInfo |-> [set |-> TRUE, issuedAt |-> userPayload.token.iat,
                          expiresAt |-> userPayload.token.exp],
           nextCalls |-> 1, responses |-> <<>>]
     ELSE [verify |-> userPayload, user |-> NullUser, tokenInfo |-> NoTokenInfo,
           nextCalls |-> 1, responses |-> <<>>]

NoGuard == [ran |-> FALSE, nextCalls |-> 0, responses |-> <<>>]

\* the middleware requireDomain(requiredDomain) returns, applied to req.user:
\* the comparison is the strict inequality of the two strings
requireDomain(requiredDomain, user) ==
  IF user.state # "identity" \/ ~user.isAuthenticated
  THEN [ran |-> TRUE, nextCalls |-> 0,
        responses |-> <<sendUnauthorizedResponse("UNAUTHORIZED")>>]
  ELSE IF user.domain # requiredDomain
  THEN [ran |-> TRUE, nextCalls |-> 0,
        responses |-> <<sendForbiddenResponse("FORBIDDEN")>>]
  ELSE [ran |-> TRUE, nextCalls |-> 1, responses |-> <<>>]

\* -------------------------------------------------- GoogleOAuthService
\* error thrown by the gateway / controller: code, statusCode, message and the
\* two extra fields DOMAIN_RESTRICTED carries.  A message is its fixed text,
\* the error_description of the provider's error body interpolated into it
\* ("" when none) and the e-mail domain interpolated into it ("" when none).
Msg(text, frag) == [text |-> text, providerText |-> frag, domain |-> ""]

OAuthErr(code, status, msg) ==
  [ok |-> FALSE, code |-> code, status |-> status, message |-> msg,
   userDomain |-> "", allowedDomain |-> ""]

NoErr == OAuthErr("", 0, Msg("", ""))

\* GoogleOAuthService.extractDomain: throws unless exactly one '@' followed by
\* a non-empty domain
googleExtractDomain(email) ==
  IF email = EmptyEmail THEN Thrown
  ELSE IF Len(email) < 2 THEN Thrown
  ELSE IF Len(email) # 2 \/ email[2] = "" THEN Thrown
  ELSE email[2]

\* GoogleOAuthService.validateDomain: never throws, false on a bad e-mail
validateDomain(email) ==
  IF email = EmptyEmail THEN FALSE
  ELSE IF googleExtractDomain(email) = Thrown THEN FALSE
  ELSE ToLowerCase(googleExtractDomain(email)) = ToLowerCase(AllowedDomain)

\* answers of the provider's token endpoint: net = FALSE is a connection
\* failure or timeout; json = FALSE a body that does not parse
TokenResp(net, status, json, error, desc, at) ==
  [net |-> net, status |-> status, json |-> json, error |-> error,
   error_description |-> desc, statusText |-> "Status Text", access_token |-> at]

ExchangeResponses ==
  { TokenResp(FALSE, 0, FALSE, "", "", ""),
    TokenResp(TRUE, 400, TRUE, "invalid_grant", "Bad Request", ""),
    TokenResp(TRUE, 400, TRUE, "invalid_client", "The OAuth client was not found.", ""),
    TokenResp(TRUE, 400, TRUE, "redirect_uri_mismatch", "provider detail", ""),
    TokenResp(TRUE, 400, FALSE, "", "", ""),
    TokenResp(TRUE, 401, TRUE, "unauthorized", "provider detail", ""),
    TokenResp(TRUE, 403, TRUE, "forbidden", "provider detail", ""),
    TokenResp(TRUE, 500, FALSE, "", "", ""),
    TokenResp(TRUE, 503, TRUE, "backend", "provider detail", ""),
    TokenResp(TRUE, 200, FALSE, "", "", ""),
    TokenResp(TRUE, 200, TRUE, "", "", ""),
    TokenResp(TRUE, 200, TRUE, "", "", "ya29.token") }

NoTokenResp == TokenResp(FALSE, 0, FALSE, "<none>", "", "")

NoTokenSet == [ok |-> FALSE, accessToken |-> ""]

\* GoogleOAuthService.exchangeCodeForTokens(code), given the provider's answer:
\* <<error, tokenSet>>
exchangeCodeForTokens(code, r) ==
  IF code = ""
  THEN <<OAuthErr("INVALID_AUTH_CODE", 400,
                  Msg("Authorization code is required and must be a string", "")),
         NoTokenSet>>
  ELSE IF ~r.net
  THEN <<OAuthErr("OAUTH_SERVICE_UNAVAILABLE", 503,
                  Msg("Failed to connect to Google OAuth service", "")), NoTokenSet>>
  ELSE IF r.status \notin 200..299
  THEN LET errorData == IF r.json THEN r ELSE TokenResp(TRUE, r.status, FALSE, "", "", "")
           raw == IF errorData.error_description # ""
                  THEN Msg("Google OAuth token exchange failed: ",
                           errorData.error_description)
                  ELSE Msg("Google OAuth token exchange failed: <statusText>", "")
       IN IF r.status = 400
          THEN IF errorData.error = "invalid_grant"
               THEN <<OAuthErr("INVALID_AUTH_CODE", r.status,
                               Msg("Authorization code is invalid or expired", "")),
                      NoTokenSet>>
               ELSE IF errorData.error = "invalid_client"
               THEN <<OAuthErr("OAUTH_CONFIG_ERROR", r.status,
                               Msg("OAuth client configuration is invalid", "")),
                      NoTokenSet>>
               ELSE <<OAuthErr("OAUTH_REQUEST_ERROR", r.status, raw), NoTokenSet>>
          ELSE IF r.status = 401
          THEN <<OAuthErr("OAUTH_UNAUTHORIZED", r.status,
                          Msg("OAuth client authentication failed", "")), NoTokenSet>>
          ELSE IF r.status >= 500
          THEN <<OAuthErr("OAUTH_SERVICE_ERROR", r.status,
                          Msg("Google OAuth service is temporarily unavailable", "")),
                 NoTokenSet>>
          ELSE <<OAuthErr("OAUTH_UNKNOWN_ERROR", r.status, raw), NoTokenSet>>
  ELSE IF ~r.json
  THEN <<OAuthErr("OAUTH_RESPONSE_ERROR", 502,
                  Msg("Invalid response format from Google OAuth service", "")),
         NoTokenSet>>
  ELSE IF r.access_token = ""
  THEN <<OAuthErr("OAUTH_RESPONSE_ERROR", 502,
                  Msg("Invalid token response: missing access_token", "")), NoTokenSet>>
  ELSE <<NoErr, [ok |-> TRUE, accessToken |-> r.access_token]>>

\* answers of the provider's userinfo endpoint
ProfileResp(net, status, json, desc, id, email, name, picture) ==
  [net |-> net, status |-> status, json |-> json, error_description |-> desc,
   statusText |-> "Status Text", id |-> id, email |-> email, name |-> name,
   picture |-> picture]

ProfileResponses ==
  { ProfileResp(FALSE, 0, FALSE, "", "", EmptyEmail, Undef, Undef),
    ProfileResp(TRUE, 401, TRUE, "provider detail", "", EmptyEmail, Undef, Undef),
    ProfileResp(TRUE, 403, TRUE, "provider detail", "", EmptyEmail, Undef, Undef),
    ProfileResp(TRUE, 500, FALSE, "", "", EmptyEmail, Undef, Undef),
    ProfileResp(TRUE, 404, TRUE, "provider detail", "", EmptyEmail, Undef, Undef),
    ProfileResp(TRUE, 404, FALSE, "", "", EmptyEmail, Undef, Undef),
    ProfileResp(TRUE, 200, FALSE, "", "", EmptyEmail, Undef, Undef) }
  \cup { ProfileResp(TRUE, 200, TRUE, "", i, e, n, p) :
            i \in {"", "g1"}, e \in Emails, n \in Names, p \in {Undef, "pic"} }

NoProfileResp == ProfileResp(FALSE, 0, FALSE, "<none>", "", EmptyEmail, Undef, Undef)

NoProfile == [id |-> "", email |-> EmptyEmail, name |-> Undef, picture |-> Undef]

\* value || '' on an optional profile field
OrEmpty(v) == IF v = Undef THEN "" ELSE v

\* GoogleOAuthService.getUserProfile(accessToken), given the provider's answer:
\* <<error, profile>>
getUserProfile(accessToken, r) ==
  IF accessToken = ""
  THEN <<OAuthErr("INVALID_ACCESS_TOKEN", 400,
                  Msg("Access token is required and must be a string", "")), NoProfile>>
  ELSE IF ~r.net
  THEN <<OAuthErr("GOOGLE_API_UNAVAILABLE", 503,
                  Msg("Failed to connect to Google user info service", "")), NoProfile>>
  ELSE IF r.status \notin 200..299
  THEN LET desc == IF r.json THEN r.error_description ELSE ""
           raw == IF desc # ""
                  THEN Msg("Google profile retrieval failed: <status> - ", desc)
                  ELSE Msg("Google profile retrieval failed: <status> - <statusText>", "")
       IN IF r.status = 401
          THEN <<OAuthErr("INVALID_ACCESS_TOKEN", r.status,
                          Msg("Access token is invalid or expired", "")), NoProfile>>
          ELSE IF r.status = 403
          THEN <<OAuthErr("INSUFFICIENT_PERMISSIONS", r.status,
                          Msg("Access token does not have required permissions", "")),
                 NoProfile>>
          ELSE IF r.status >= 500
          THEN <<OAuthErr("GOOGLE_API_ERROR", r.status,
                          Msg("Google user info service is temporarily unavailable", "")),
                 NoProfile>>
          ELSE <<OAuthErr("PROFILE_RETRIEVAL_ERROR", r.status, raw), NoProfile>>
  ELSE IF ~r.json
  THEN <<OAuthErr("GOOGLE_API_RESPONSE_ERROR", 502,
                  Msg("Invalid response format from Google user info service", "")),
         NoProfile>>
  ELSE IF r.id = "" \/ r.email = EmptyEmail
  THEN <<OAuthErr("INCOMPLETE_PROFILE_DATA", 502,
                  Msg("Invalid profile response: missing required fields (id, email)", "")),
         NoProfile>>
  ELSE IF ~validateDomain(r.email)
  THEN LET domain == googleExtractDomain(r.email) IN
       IF domain = Thrown
       THEN <<OAuthErr("PROFILE_RETRIEVAL_ERROR", 500,
                       Msg("Invalid email format", "")), NoProfile>>
       ELSE <<[ok |-> FALSE, code |-> "DOMAIN_RESTRICTED", status |-> 403,
               message |-> [text |-> "Access restricted to @<allowed> accounts. Found: @",
                            providerText |-> "", domain |-> domain],
               userDomain |-> domain, allowedDomain |-> AllowedDomain],
              NoProfile>>
  ELSE <<NoErr, [id |-> r.id, email |-> r.email, name |-> OrEmpty(r.name),
                 picture |-> OrEmpty(r.picture)]>>

\* message of the error generateToken throws, by code
generateTokenMessage(code) ==
  CASE code = "INVALID_PAYLOAD" -> "Token payload must be a valid object"
    [] code = "MISSING_REQUIRED_FIELDS" -> "Token payload must include id and email"
    [] code = "INVALID_DOMAIN" -> "Invalid email domain for token generation"
    [] code = "TOKEN_SIGNING_ERROR" -> "Failed to sign JWT token"
    [] OTHER -> "Invalid email format"

\* ------------------------------------------------------- AuthController
\* getOAuthErrorMessage(error, errorDescription)
getOAuthErrorMessage(error, errorDescription) ==
  CASE error = "access_denied" ->
         Msg("You cancelled the sign-in process. Please try again to access the application.", "")
    [] error = "invalid_request" ->
         Msg("Invalid authentication request. Please try signing in again.", "")
    [] error \in {"unauthorized_client", "unsupported_response_type", "invalid_scope"} ->
         Msg("Authentication service configuration error. Please contact support.", "")
    [] error \in {"server_error", "temporarily_unavailable"} ->
         Msg("Google authentication service is temporarily unavailable. Please try again.", "")
    [] OTHER ->
         IF errorDescription # "" THEN Msg("", errorDescription)
         ELSE Msg("Authentication failed. Please try again.", "")

\* the string of a token, with or without a leading "Bearer "
JwtStr(t, bearer) == [form |-> "jwt", bearer |-> bearer, jwt |-> t]

\* an HTTP JSON response of a controller endpoint
Http(status, errorType, token, userData) ==
  [status |-> status, error_type |-> errorType, token |-> token, user |-> userData]

NoUserData == [id |-> "", email |-> EmptyEmail, name |-> Undef, picture |-> Undef,
               domain |-> ""]

NoHttp == Http(0, "", NoJwt, NoUserData)

\* AuthController.handleAuthenticationError(error, res, context): status and
\* error_type of the JSON error it sends
ctlHandleAuthenticationError(err) ==
  CASE err.code = "DOMAIN_RESTRICTED" -> Http(403, "domain_restricted", NoJwt, NoUserData)
    [] err.code = "INVALID_AUTH_CODE" -> Http(400, "invalid_auth_code", NoJwt, NoUserData)
    [] err.code \in {"OAUTH_SERVICE_UNAVAILABLE", "GOOGLE_API_UNAVAILABLE"}
         -> Http(503, "service_unavailable", NoJwt, NoUserData)
    [] err.code = "OAUTH_CONFIG_ERROR" -> Http(500, "configuration_error", NoJwt, NoUserData)
    [] err.code = "TOKEN_EXPIRED" -> Http(401, "token_expired", NoJwt, NoUserData)
    [] err.code = "INVALID_TOKEN" -> Http(401, "invalid_token", NoJwt, NoUserData)
    [] err.code = "INSUFFICIENT_PERMISSIONS"
         -> Http(403, "insufficient_permissions", NoJwt, NoUserData)
    [] OTHER -> Http(IF err.status # 0 THEN err.status ELSE 500,
                     "authentication_error", NoJwt, NoUserData)

\* AuthController.refreshToken(req, res): the response of POST /auth/refresh
refreshEndpoint(h, secretSet, clock) ==
  IF ~h.present \/ h.basic \/ ~h.str.bearer \/ h.str.form = "null"
  THEN Http(401, "missing_token", NoJwt, NoUserData)
  ELSE LET currentToken == [h.str EXCEPT !.bearer = FALSE]
           newToken == refreshToken(currentToken, secretSet, clock)
           decoded == verifyToken(JwtStr(newToken.token, FALSE), secretSet, clock)
       IN IF ~newToken.ok THEN ctlHandleAuthenticationError(newToken)
          ELSE IF ~decoded.ok THEN ctlHandleAuthenticationError(decoded)
          ELSE Http(200, "", newToken.token,
                    [id |-> decoded.token.id, email |-> decoded.token.email,
                     name |-> decoded.token.name, picture |-> decoded.token.picture,
                     domain |-> decoded.token.domain])

\* -------------------------------------------------------- ErrorHandler
\* the errors handed to the handler: class (for instanceof), name, message,
\* Prisma code and validation issues
ErrorClasses ==
  {"PrismaClientKnownRequestError", "PrismaClientValidationError", "Error"}
ErrorNames == {"Error", "ValidationError", "NotFoundError"}
ErrorTexts == {"Something went wrong", "connect ECONNREFUSED db:5432"}
ErrorCodes == {Undef, "P2002", "P2025", "P9999"}
ErrorIssues == {Undef, "name: Required"}
Errors ==
  [class : ErrorClasses, name : ErrorNames, message : ErrorTexts,
   code : ErrorCodes, issues : ErrorIssues]
Paths == {"/test", "/api/warehouses/invalid-id"}

NoDetails == [kind |-> "none", value |-> ""]

\* createErrorResponse(message, code, path, details)
createErrorResponse(message, code, path, details, clock) ==
  [error |-> message, code |-> code, timestamp |-> clock, path |-> path,
   details |-> details]

\* getPrismaErrorMessage(code)
getPrismaErrorMessage(code) ==
  LET errorMessages ==
        [P2000 |-> "The provided value is too long for the column",
         P2001 |-> "The record searched for does not exist",
         P2002 |-> "Unique constraint failed",
         P2003 |-> "Foreign key constraint failed",
         P2004 |-> "A constraint failed on the database",
         P2005 |-> "The value stored in the database is invalid for the field type",
         P2006 |-> "The provided value is not valid for the field",
         P2007 |-> "Data validation error",
         P2008 |-> "Failed to parse the query",
         P2009 |-> "Failed to validate the query",
         P2010 |-> "Raw query failed",
         P2011 |-> "Null constraint violation",
         P2012 |-> "Missing a required value",
         P2013 |-> "Missing the required argument",
         P2014 |-> "The change would violate the required relation",
         P2015 |-> "A related record could not be found",
         P2016 |-> "Query interpretation error",
         P2017 |-> "The records for relation are not connected",
         P2018 |-> "The required connected records were not found",
         P2019 |-> "Input error",
         P2020 |-> "Value out of range for the type",
         P2021 |-> "The table does not exist in the current database",
         P2022 |-> "The column does not exist in the current database",
         P2023 |-> "Inconsistent column data",
         P2024 |-> "Timed out fetching a new connection from the connection pool",
         P2025 |-> "Record not found",
         P2026 |-> "The current database provider doesn't support a feature",
         P2027 |-> "Multiple errors occurred on the database during query execution"]
  IN IF code \in DOMAIN errorMessages THEN errorMessages[code]
     ELSE "Database operation failed"

\* getPrismaErrorStatusCode(code)
getPrismaErrorStatusCode(code) ==
  LET statusCodes ==
        [P2001 |-> 404, P2002 |-> 409, P2003 |-> 400, P2004 |-> 400,
         P2005 |-> 400, P2006 |-> 400, P2007 |-> 400, P2011 |-> 400,
         P2012 |-> 400, P2013 |-> 400, P2014 |-> 400, P2015 |-> 404,
         P2018 |-> 404, P2019 |-> 400, P2020 |-> 400, P2025 |-> 404,
         P2024 |-> 503, P2026 |-> 501]
  IN IF code \in DOMAIN statusCodes THEN statusCodes[code] ELSE 500

\* res.status(status).json(body)
JsonResponse(status, body) == [status |-> status, body |-> body]

handlePrismaError(error, path, clock) ==
  JsonResponse(getPrismaErrorStatusCode(error.code),
    createErrorResponse(getPrismaErrorMessage(error.code), error.code, path,
                        NoDetails, clock))

handlePrismaValidationError(error, path, clock) ==
  JsonResponse(400,
    createErrorResponse("Invalid data provided to database operation",
                        "PRISMA_VALIDATION_ERROR", path,
                        [kind |-> "originalError", value |-> error.message], clock))

handleValidationError(error, path, clock) ==
  JsonResponse(400,
    createErrorResponse("Validation failed", "VALIDATION_ERROR", path,
                        [kind |-> "issues",
                         value |-> IF error.issues = Undef THEN "[]"
                                   ELSE error.issues], clock))

\* a generic handler that puts the error's own message into the body
handleGenericError_ExposesMessage(error, path, clock) ==
  JsonResponse(500,
    createErrorResponse(error.message, "INTERNAL_ERROR", path, NoDetails, clock))

handleGenericError(error, path, clock) ==
  JsonResponse(500,
    createErrorResponse("Internal server error", "INTERNAL_ERROR", path,
                        NoDetails, clock))

\* ErrorHandler.handle(error, req, res, next): the responses it sends
handle(error, path, clock) ==
  IF error.class = "PrismaClientKnownRequestError"
  THEN <<handlePrismaError(error, path, clock)>>
  ELSE IF error.class = "PrismaClientValidationError"
  THEN <<handlePrismaValidationError(error, path, clock)>>
  ELSE IF error.name = "ValidationError"
  THEN <<handleValidationError(error, path, clock)>>
  ELSE <<handleGenericError(error, path, clock)>>

NoError ==
  [class |-> "", name |-> "", message |-> "", code |-> Undef, issues |-> Undef]

NoHandled ==
  [ran |-> FALSE, error |-> NoError, path |-> "", at |-> 0, responses |-> <<>>]

\* ----------------------------------------------------------- Container
\* a service name is the sequence of its pieces, so that the cache key
\* `singleton_${name}` is the name with one more piece in front
ServiceNames == {<<"svc">>, <<"singleton_", "svc">>}
Factories == {"f1", "f2"}

cacheKey(name) == <<"singleton_">> \o name

\* a registered factory function, and the object a factory call returns
Factory(f) == [kind |-> "factory", f |-> f, serial |-> 0]
Instance(f, n) == [kind |-> "instance", f |-> f, serial |-> n]
NoValue == [kind |-> "none", f |-> "", serial |-> 0]

\* a JavaScript Map: its entries in insertion order
MapHas(m, k) == \E i \in 1..Len(m) : m[i].key = k
MapGet(m, k) == m[CHOOSE i \in 1..Len(m) : m[i].key = k].value
MapSet(m, k, v) ==
  IF MapHas(m, k)
  THEN [i \in 1..Len(m) |-> IF m[i].key = k THEN [key |-> k, value |-> v] ELSE m[i]]
  ELSE Append(m, [key |-> k, value |-> v])
MapKeys(m) == [i \in 1..Len(m) |-> m[i].key]

\* new Container(): two empty maps; made counts the objects the factories
\* returned, registered is the set of names registered since the last clear
NewContainer ==
  [instances |-> <<>>, singletons |-> <<>>, made |-> 0, registered |-> {},
   last |-> [op |-> "new", name |-> <<>>, value |-> NoValue, threw |-> FALSE]]

registerSingleton(k, name, factory) ==
  [k EXCEPT !.singletons = MapSet(k.singletons, name, Factory(factory))]

register(k, name, factory) ==
  [k EXCEPT !.instances = MapSet(k.instances, name, Factory(factory))]

\* resolve(name): the container afterwards, the value returned, or a throw
\* (service not found; or the stored value called as a factory is no function)
resolve(k, name) ==
  IF MapHas(k.singletons, name)
  THEN LET key == cacheKey(name)
           factory == MapGet(k.singletons, name)
           k1 == IF ~MapHas(k.instances, key)
                 THEN [k EXCEPT !.instances =
                                   MapSet(k.instances, key, Instance(factory.f, k.made + 1)),
                                !.made = k.made + 1]
                 ELSE k
       IN [k |-> k1, value |-> MapGet(k1.instances, key), threw |-> FALSE]
  ELSE IF MapHas(k.instances, name)
  THEN LET factory == MapGet(k.instances, name) IN
       IF factory.kind = "factory"
       THEN [k |-> [k EXCEPT !.made = k.made + 1],
             value |-> Instance(factory.f, k.made + 1), threw |-> FALSE]
       ELSE [k |-> k, value |-> NoValue, threw |-> TRUE]
  ELSE [k |-> k, value |-> NoValue, threw |-> TRUE]

has(k, name) == MapHas(k.singletons, name) \/ MapHas(k.instances, name)

getRegisteredServices(k) == MapKeys(k.singletons) \o MapKeys(k.instances)

clear(k) == [k EXCEPT !.instances = <<>>, !.singletons = <<>>]

\* ------------------------------------------------------ a client session
\* the profile the client logs in with
LoginPayload ==
  [obj |-> TRUE, id |-> "u1", email |-> <<"a", "wareongo.com">>,
   name |-> "Ann", picture |-> "pic"]

NoSession ==
  [active |-> FALSE, loginAt |-> 0, first |-> NoJwt, latest |-> NoJwt,
   refreshes |-> 0, reuses |-> 0]

\* ================================================================ state
VARIABLES
  now,        \* the clock, in seconds
  secretSet,  \* whether config.jwt.secret has a value (JWT_SECRET set)
  issuance,   \* the successful generateToken calls so far: payload, span, token
  call,       \* the most recent service / middleware invocation and its outcome
  cb,         \* the callback requests being handled, by request id
  session,    \* one client's login and the tokens it got by refreshing
  handled,    \* the error ErrorHandler.handle ran on last, and what it sent
  container   \* the dependency container: its two maps and what it made

vars == <<now, secretSet, issuance, call, cb, session, handled, container>>

\* the tokens signed by this service so far (held by clients)
issued == { x.token : x \in issuance }

\* refreshed: whether the token came out of refreshToken
Issuance(payload, expiresIn, token, refreshed) ==
  [payload |-> payload, expiresIn |-> expiresIn, token |-> token,
   refreshed |-> refreshed]

\* ------------------------------------------- inputs a client can present
\* alterations of a token t by a party that does not know the secret
Tampered(t) ==
  { [t EXCEPT !.alg = "none", !.sig = NoSig],
    [t EXCEPT !.alg = "HS512"],
    [t EXCEPT !.sig = NoSig],
    [t EXCEPT !.email = <<"a", "other.com">>],
    [t EXCEPT !.exp = t.exp + 1],
    [t EXCEPT !.sig = Hmac("attacker-secret", Content(t))],
    [t EXCEPT !.sig = Hmac("attacker-secret", [Content(t) EXCEPT !.exp = t.exp + 1]),
              !.exp = t.exp + 1] }

\* t as another holder of the secret would have signed it
Resign(c) ==
  [alg |-> c.alg, id |-> c.id, email |-> c.email, name |-> c.name,
   picture |-> c.picture, domain |-> c.domain, iss |-> c.iss, aud |-> c.aud,
   iat |-> c.iat, nbf |-> c.nbf, exp |-> c.exp, sig |-> Hmac(ServerSecret, c)]

\* tokens carrying a valid signature that this service did not issue: another
\* issuer or audience, a deployment whose allowed domain was different, claims
\* without id or with an e-mail that has no '@', a not-before instant
ForeignSigned(t) ==
  { Resign([Content(t) EXCEPT !.iss = "other-api"]),
    Resign([Content(t) EXCEPT !.aud = "other-frontend"]),
    Resign([Content(t) EXCEPT !.email = <<"a", "other.com">>, !.domain = "other.com"]),
    Resign([Content(t) EXCEPT !.id = ""]),
    Resign([Content(t) EXCEPT !.email = <<"abc">>, !.domain = ""]),
    Resign([Content(t) EXCEPT !.nbf = t.iat + 1]) }

\* strings that are no token at all
NonTokens ==
  { [form |-> f, bearer |-> b, jwt |-> NoJwt] :
      f \in {"empty", "blank", "garbage"}, b \in BOOLEAN }

TokenStrings ==
  NonTokens
  \cup { JwtStr(t, b) : t \in issued, b \in BOOLEAN }
  \cup UNION { { JwtStr(x, FALSE) : x \in Tampered(t) \cup ForeignSigned(t) } :
                t \in issued }

\* arguments of verifyToken / refreshToken: a string, or no string at all
TokenArgs == TokenStrings \cup {NoStr}

\* Authorization headers: none, one per kind of non-token, and an issued or
\* validly signed token under the Bearer scheme, bare, or under another scheme
Headers ==
  {NoHeader}
  \cup { [present |-> TRUE, basic |-> FALSE, str |-> x] : x \in NonTokens }
  \cup { [present |-> TRUE, basic |-> FALSE, str |-> JwtStr(t, b)] :
           t \in issued, b \in BOOLEAN }
  \cup UNION { { [present |-> TRUE, basic |-> FALSE, str |-> JwtStr(x, FALSE)] :
                   x \in ForeignSigned(t) } : t \in issued }
  \cup { [present |-> TRUE, basic |-> TRUE, str |-> JwtStr(t, FALSE)] : t \in issued }

NoMw ==
  [verify |-> NotCalled, user |-> NoUser, tokenInfo |-> NoTokenInfo,
   nextCalls |-> 0, responses |-> <<>>]

NoCall ==
  [op |-> "none", payload |-> NullPayload, expiresIn |-> "null", str |-> NoStr,
   header |-> NoHeader, at |-> 0, res |-> NotCalled, mw |-> NoMw,
   guard |-> NoGuard, http |-> NoHttp]

\* ------------------------------------------------------ callback state
CbIds == {"r1", "r2"}

NoQuery == [code |-> "", error |-> "", error_description |-> ""]

Queries ==
  { [code |-> c, error |-> e, error_description |-> d] :
      c \in {"", "4/code"},
      e \in {"", "access_denied", "custom_error"},
      d \in {"", "provider description"} }

\* a callback request: the GET variant carries its parameters in the query, the
\* POST variant in the body
Requests ==
  { [method |-> "GET", query |-> q, body |-> NoQuery] : q \in Queries }
  \cup { [method |-> "POST", query |-> NoQuery, body |-> q] :
            q \in {x \in Queries : x.error = "" /\ x.error_description = ""} }

NoRequest == [method |-> "", query |-> NoQuery, body |-> NoQuery]

IdleCb ==
  [pc |-> "idle", req |-> NoRequest, steps |-> <<>>, exchangeCalls |-> 0,
   profileCalls |-> 0, exchangeResp |-> NoTokenResp, profileResp |-> NoProfileResp,
   tokenSet |-> NoTokenSet, profile |-> NoProfile,
   err |-> NoErr, token |-> NoJwt, responses |-> <<>>, thrown |-> FALSE,
   silent |-> FALSE]

\* res.redirect(`${frontendUrl}/?error=${encodeURIComponent(errorMessage)}`)
ErrorRedirect(msg) ==
  [kind |-> "redirect", base |-> FrontendUrl, path |-> "/", error |-> msg,
   hasToken |-> FALSE, token |-> NoJwt, user |-> NoUserData]

\* res.redirect(`${frontendUrl}/auth/callback?token=...&user=...`)
TokenRedirect(t, userData) ==
  [kind |-> "redirect", base |-> FrontendUrl, path |-> "/auth/callback",
   error |-> Msg("", ""), hasToken |-> TRUE, token |-> t, user |-> userData]

\* ================================================================= Init
Init ==
  /\ now = 0
  /\ secretSet \in BOOLEAN
  /\ issuance = {}
  /\ call = NoCall
  /\ cb = [r \in CbIds |-> IdleCb]
  /\ session = NoSession
  /\ handled = NoHandled
  /\ container = NewContainer

\* ============================================================== actions
\* the clock advances
Tick ==
  /\ now < MaxTime
  /\ call = NoCall
  /\ now' = now + 1
  /\ UNCHANGED <<secretSet, issuance, call, cb, session, handled, container>>

\* room for one more token in the clients' hands
CanHold(res) ==
  res.ok => (res.token \in issued \/ Cardinality(issued) < MaxIssued)

\* a caller invokes JWTService.generateToken(payload, expiresIn)
GenerateToken(payload, expiresIn) ==
  LET res == generateToken(payload, expiresIn, secretSet, now) IN
  /\ call = NoCall
  /\ CanHold(res)
  /\ call' = [NoCall EXCEPT !.op = "generateToken", !.payload = payload,
                            !.expiresIn = expiresIn, !.at = now, !.res = res]
  /\ issuance' = IF res.ok
                 THEN issuance \cup {Issuance(payload, expiresIn, res.token, FALSE)}
                 ELSE issuance
  /\ UNCHANGED <<now, secretSet, cb, session, handled, container>>

\* a caller invokes JWTService.verifyToken(token)
VerifyToken(str) ==
  /\ call = NoCall
  /\ call' = [NoCall EXCEPT !.op = "verifyToken", !.str = str, !.at = now,
                            !.res = verifyToken(str, secretSet, now)]
  /\ UNCHANGED <<now, secretSet, issuance, cb, session, handled, container>>

\* a caller invokes JWTService.refreshToken(token)
RefreshToken(str) ==
  LET res == refreshToken(str, secretSet, now) IN
  /\ call = NoCall
  /\ CanHold(res)
  /\ call' = [NoCall EXCEPT !.op = "refreshToken", !.str = str, !.at = now,
                            !.res = res]
  /\ issuance' = IF res.ok
                 THEN issuance \cup {Issuance(UserPayload(verifyToken(str, secretSet, now).token),
                                              "null", res.token, TRUE)}
                 ELSE issuance
  /\ UNCHANGED <<now, secretSet, cb, session, handled, container>>

\* a request with Authorization header h passes through authenticateJWT
AuthenticateJWT(h) ==
  /\ call = NoCall
  /\ call' = [NoCall EXCEPT !.op = "authenticateJWT", !.header = h, !.at = now,
                            !.mw = authenticateJWT(h, secretSet, now)]
  /\ UNCHANGED <<now, secretSet, issuance, cb, session, handled, container>>

\* AuthController.logout: the response it sends
logout == [ok |-> TRUE, code |-> "", status |-> 200, token |-> NoJwt]

\* a logout that discards the signing secret to end every session
Logout_ClearsSecret ==
  /\ call = NoCall
  /\ call' = [NoCall EXCEPT !.op = "logout", !.at = now, !.res = logout]
  /\ secretSet' = FALSE
  /\ UNCHANGED <<now, issuance, cb, session, handled, container>>

\* a client calls POST /auth/logout
Logout ==
  /\ call = NoCall
  /\ call' = [NoCall EXCEPT !.op = "logout", !.at = now, !.res = logout]
  /\ UNCHANGED <<now, secretSet, issuance, cb, session, handled, container>>

\* Authorization headers as the endpoints and guards see them: those above
\* and validly signed foreign tokens under the Bearer scheme
EndpointHeaders ==
  Headers
  \cup UNION { { [present |-> TRUE, basic |-> FALSE, str |-> JwtStr(x, TRUE)] :
                   x \in ForeignSigned(t) } : t \in issued }

\* a client calls POST /auth/refresh with Authorization header h
RefreshEndpoint(h) ==
  LET res == refreshEndpoint(h, secretSet, now) IN
  /\ call = NoCall
  /\ res.status = 200 => (res.token \in issued \/ Cardinality(issued) < MaxIssued)
  /\ call' = [NoCall EXCEPT !.op = "refreshEndpoint", !.header = h, !.at = now,
                            !.http = res]
  /\ issuance' = IF res.status = 200
                 THEN issuance \cup {Issuance(UserPayload(res.token), "null",
                                              res.token, TRUE)}
                 ELSE issuance
  /\ UNCHANGED <<now, secretSet, cb, session, handled, container>>

\* a request with Authorization header h passes through optionalAuthentication
OptionalAuthentication(h) ==
  /\ call = NoCall
  /\ call' = [NoCall EXCEPT !.op = "optionalAuthentication", !.header = h,
                            !.at = now,
                            !.mw = optionalAuthentication(h, secretSet, now)]
  /\ UNCHANGED <<now, secretSet, issuance, cb, session, handled, container>>

\* a request to a route mounted as authenticateJWT, requireDomain(allowedDomain):
\* the guard runs when authenticateJWT has called next
GuardedRequest(h) ==
  LET m == authenticateJWT(h, secretSet, now) IN
  /\ call = NoCall
  /\ call' = [NoCall EXCEPT !.op = "guardedRequest", !.header = h, !.at = now,
                            !.mw = m,
                            !.guard = IF m.nextCalls = 1
                                      THEN requireDomain(AllowedDomain, m.user)
                                      ELSE NoGuard]
  /\ UNCHANGED <<now, secretSet, issuance, cb, session, handled, container>>

\* the invocation has returned to its caller; its frame is dropped
Return ==
  /\ call # NoCall
  /\ call' = NoCall
  /\ UNCHANGED <<now, secretSet, issuance, cb, session, handled, container>>

\* ------------------------------------- AuthController.handleOAuthCallback
\* a catch block answering with a JSON error body instead of a redirect
handleCallbackError_SendsJson(c, err) ==
  [c EXCEPT !.pc = "done", !.err = err,
            !.steps = Append(c.steps, "redirect"),
            !.responses = Append(c.responses,
               [kind |-> "json", base |-> "", path |-> "", error |-> err.message,
                hasToken |-> FALSE, token |-> NoJwt, user |-> NoUserData])]

\* the catch block: redirect to the front end with error.message
handleCallbackError(c, err) ==
  [c EXCEPT !.pc = "done", !.err = err,
            !.steps = Append(c.steps, "redirect"),
            !.responses = Append(c.responses, ErrorRedirect(err.message))]

\* from the arrival of the request to the first outbound call
handleOAuthCallback(c, request) ==
  LET q == request.query
      c1 == [c EXCEPT !.req = request]
  IN IF q.error # ""
     THEN [c1 EXCEPT !.pc = "done",
                     !.steps = Append(c1.steps, "redirect"),
                     !.responses = Append(c1.responses,
                        ErrorRedirect(getOAuthErrorMessage(q.error, q.error_description)))]
     ELSE IF q.code = ""
     THEN [c1 EXCEPT !.pc = "done",
                     !.steps = Append(c1.steps, "redirect"),
                     !.responses = Append(c1.responses,
                        ErrorRedirect(Msg("Authorization code is required", "")))]
     ELSE [c1 EXCEPT !.pc = "exchanging",
                     !.steps = Append(c1.steps, "exchange"),
                     !.exchangeCalls = c1.exchangeCalls + 1]

\* a flow that sends the exchange request again when the provider is erroring
afterExchange_Retries(c0, r) ==
  LET c == [c0 EXCEPT !.exchangeResp = r]
      x == exchangeCodeForTokens(c.req.query.code, r) IN
  IF ~x[2].ok /\ x[1].status >= 500 /\ c.exchangeCalls < 2
  THEN [c EXCEPT !.steps = Append(c.steps, "exchange"),
                 !.exchangeCalls = c.exchangeCalls + 1]
  ELSE IF ~x[2].ok
  THEN handleCallbackError(c, x[1])
  ELSE [c EXCEPT !.pc = "profiling", !.tokenSet = x[2],
                 !.steps = Append(c.steps, "profile"),
                 !.profileCalls = c.profileCalls + 1]

\* completeOAuthFlow after the token endpoint answered: classify the answer,
\* then either fail or send the profile request
afterExchange(c0, r) ==
  LET c == [c0 EXCEPT !.exchangeResp = r]
      x == exchangeCodeForTokens(c.req.query.code, r) IN
  IF ~x[2].ok
  THEN handleCallbackError(c, x[1])
  ELSE [c EXCEPT !.pc = "profiling", !.tokenSet = x[2],
                 !.steps = Append(c.steps, "profile"),
                 !.profileCalls = c.profileCalls + 1]

\* a controller that keeps the fetched profile in a field shared by all
\* requests: the token is issued for the profile another request stored last
ProfilePayload_SharedProfile(user) ==
  LET others == { o \in CbIds : cb[o].profile # NoProfile /\ cb[o].profile # user }
      u == IF others = {} THEN user ELSE cb[CHOOSE o \in others : TRUE].profile
  IN [obj |-> TRUE, id |-> u.id, email |-> u.email, name |-> u.name,
      picture |-> u.picture]

\* oauthResult.user as the payload handed to generateToken
ProfilePayload(user) ==
  [obj |-> TRUE, id |-> user.id, email |-> user.email, name |-> user.name,
   picture |-> user.picture]

\* whether getUserProfile gets as far as its domain check on answer r
ReachesDomainCheck(r) ==
  r.net /\ r.status \in 200..299 /\ r.json /\ r.id # "" /\ r.email # EmptyEmail

\* completeOAuthFlow after the userinfo endpoint answered, then token issue
\* and the final redirect
afterProfile(c0, r, secret, clock) ==
  LET c == [c0 EXCEPT !.profileResp = r]
      x == getUserProfile(c.tokenSet.accessToken, r)
      c1 == IF ReachesDomainCheck(r)
            THEN [c EXCEPT !.steps = Append(c.steps, "domain")] ELSE c
      user == x[2]
      jwtToken == generateToken(ProfilePayload(user), "null", secret, clock)
      userData == [id |-> user.id, email |-> user.email, name |-> user.name,
                   picture |-> user.picture, domain |-> extractDomain(user.email)]
  IN IF x[1] # NoErr
     THEN handleCallbackError(c1, x[1])
     ELSE IF ~jwtToken.ok
     THEN handleCallbackError([c1 EXCEPT !.profile = user],
             OAuthErr(jwtToken.code, jwtToken.status,
                      Msg(generateTokenMessage(jwtToken.code), "")))
     ELSE [c1 EXCEPT !.pc = "done", !.profile = user, !.token = jwtToken.token,
                     !.steps = c1.steps \o <<"issue", "redirect">>,
                     !.responses = Append(c1.responses,
                                          TokenRedirect(jwtToken.token, userData))]

\* the request has an outbound call pending
Waiting(c) == c.pc \in {"exchanging", "profiling"}

\* the outbound call just sent goes to a provider that answers, or to one that
\* stays silent
Sent(c, silent) == [c EXCEPT !.silent = Waiting(c) /\ silent]

\* a fetch that has no timeout and hangs with a silent provider
fetchOutcomes_NoTimeout(silent, answers) ==
  IF silent THEN {} ELSE answers

\* the ways await fetch(url, {..., timeout: 10000}) can settle: with any of the
\* provider's answers or a connection failure, and with a silent provider
\* only by the rejection that ends the wait (net = FALSE)
fetchOutcomes(silent, answers) ==
  IF silent THEN { a \in answers : ~a.net } ELSE answers

\* a callback request arrives
CbReceive(r, request, silent) ==
  /\ cb[r].pc = "idle"
  /\ cb' = [cb EXCEPT ![r] = Sent(handleOAuthCallback(cb[r], request), silent)]
  /\ UNCHANGED <<now, secretSet, issuance, call, session, handled, container>>

\* the call to the token endpoint settles
CbExchangeResponse(r, resp, silent) ==
  /\ cb[r].pc = "exchanging"
  /\ resp \in fetchOutcomes(cb[r].silent, ExchangeResponses)
  /\ cb' = [cb EXCEPT ![r] = Sent(afterExchange(cb[r], resp), silent)]
  /\ UNCHANGED <<now, secretSet, issuance, call, session, handled, container>>

\* the call to the userinfo endpoint settles
CbProfileResponse(r, resp) ==
  LET c == Sent(afterProfile(cb[r], resp, secretSet, now), FALSE) IN
  /\ cb[r].pc = "profiling"
  /\ resp \in fetchOutcomes(cb[r].silent, ProfileResponses)
  /\ c.token # NoJwt => (c.token \in issued \/ Cardinality(issued) < MaxIssued)
  /\ cb' = [cb EXCEPT ![r] = c]
  /\ issuance' = IF c.token # NoJwt
                 THEN issuance \cup {Issuance(ProfilePayload(c.profile), "null", c.token,
                                            FALSE)}
                 ELSE issuance
  /\ UNCHANGED <<now, secretSet, call, session, handled, container>>

\* ------------------------------------------------- ErrorHandler.handle
\* an error reaches the application's error middleware
HandleError(error, path) ==
  /\ handled' = [ran |-> TRUE, error |-> error, path |-> path, at |-> now,
                 responses |-> handle(error, path, now)]
  /\ UNCHANGED <<now, secretSet, issuance, call, cb, session, container>>

\* ------------------------------------------------------------ Container
RegisterSingleton(name, factory) ==
  /\ container' = [registerSingleton(container, name, factory) EXCEPT
                     !.registered = @ \cup {name},
                     !.last = [op |-> "registerSingleton", name |-> name,
                               value |-> NoValue, threw |-> FALSE]]
  /\ UNCHANGED <<now, secretSet, issuance, call, cb, session, handled>>

Register(name, factory) ==
  /\ container' = [register(container, name, factory) EXCEPT
                     !.registered = @ \cup {name},
                     !.last = [op |-> "register", name |-> name,
                               value |-> NoValue, threw |-> FALSE]]
  /\ UNCHANGED <<now, secretSet, issuance, call, cb, session, handled>>

Resolve(name) ==
  LET r == resolve(container, name) IN
  /\ r.k.made <= MaxMade
  /\ container' = [r.k EXCEPT !.last = [op |-> "resolve", name |-> name,
                                       value |-> r.value, threw |-> r.threw]]
  /\ UNCHANGED <<now, secretSet, issuance, call, cb, session, handled>>

Clear ==
  /\ container' = [clear(container) EXCEPT
                     !.registered = {},
                     !.last = [op |-> "clear", name |-> <<>>,
                               value |-> NoValue, threw |-> FALSE]]
  /\ UNCHANGED <<now, secretSet, issuance, call, cb, session, handled>>

\* --------------------------------------------------------- client session
\* the client logs in: the callback issues its first token
SessionLogin ==
  LET r == generateToken(LoginPayload, "null", secretSet, now) IN
  /\ ~session.active
  /\ r.ok
  /\ session' = [active |-> TRUE, loginAt |-> now, first |-> r.token,
                 latest |-> r.token, refreshes |-> 0, reuses |-> 0]
  /\ UNCHANGED <<now, secretSet, issuance, call, cb, handled, container>>

\* the client refreshes the token it obtained last
SessionRefresh ==
  LET r == refreshToken(JwtStr(session.latest, FALSE), secretSet, now) IN
  /\ session.active
  /\ session.refreshes < MaxRefresh
  /\ r.ok
  /\ session' = [session EXCEPT !.latest = r.token, !.refreshes = @ + 1]
  /\ UNCHANGED <<now, secretSet, issuance, call, cb, handled, container>>

\* the client refreshes its first token once more
SessionReuse ==
  LET r == refreshToken(JwtStr(session.first, FALSE), secretSet, now) IN
  /\ session.active
  /\ session.reuses < MaxRefresh
  /\ r.ok
  /\ session' = [session EXCEPT !.latest = r.token, !.reuses = @ + 1]
  /\ UNCHANGED <<now, secretSet, issuance, call, cb, handled, container>>

\* ======================================================== specifications
TokenNext ==
  \/ Tick
  \/ \E a \in GenerateArgs : GenerateToken(a[1], a[2])
  \/ \E s \in TokenArgs : VerifyToken(s)
  \/ \E s \in TokenArgs : RefreshToken(s)
  \/ \E h \in Headers : AuthenticateJWT(h)
  \/ Logout
  \/ Return

CallbackNext ==
  \/ \E r \in CbIds, q \in Requests, s \in BOOLEAN : CbReceive(r, q, s)
  \/ \E r \in CbIds, x \in ExchangeResponses, s \in BOOLEAN :
       CbExchangeResponse(r, x, s)
  \/ \E r \in CbIds, x \in ProfileResponses : CbProfileResponse(r, x)

LoginNext ==
  \/ Tick
  \/ CallbackNext

GuardNext ==
  \/ Tick
  \/ \E a \in GenerateArgs : GenerateToken(a[1], a[2])
  \/ \E h \in EndpointHeaders : OptionalAuthentication(h)
  \/ \E h \in EndpointHeaders : GuardedRequest(h)
  \/ Return

EndpointNext ==
  \/ Tick
  \/ \E a \in GenerateArgs : GenerateToken(a[1], a[2])
  \/ \E h \in EndpointHeaders : RefreshEndpoint(h)
  \/ Return

ErrorNext ==
  \/ Tick
  \/ \E e \in Errors, p \in Paths : HandleError(e, p)

ContainerNext ==
  \/ \E n \in ServiceNames, f \in Factories : RegisterSingleton(n, f)
  \/ \E n \in ServiceNames, f \in Factories : Register(n, f)
  \/ \E n \in ServiceNames : Resolve(n)
  \/ Clear

SessionNext ==
  \/ Tick
  \/ SessionLogin
  \/ SessionRefresh
  \/ SessionReuse

Next ==
  \/ TokenNext \/ LoginNext \/ GuardNext \/ EndpointNext \/ ErrorNext
  \/ ContainerNext \/ SessionNext

\* the token service and the middleware
SpecToken == Init /\ [][TokenNext]_vars

\* the login flow
SpecLogin == Init /\ [][LoginNext]_vars

\* the login flow where every pending outbound call settles: each request's
\* awaits are resumed by the event loop independently of the other requests
CallsSettle ==
  \A r \in CbIds :
    /\ WF_vars(\E x \in ExchangeResponses, s \in BOOLEAN : CbExchangeResponse(r, x, s))
    /\ WF_vars(\E x \in ProfileResponses : CbProfileResponse(r, x))

SpecLoginFair == Init /\ [][CallbackNext]_vars /\ CallsSettle

\* the optional middleware and the domain guard
SpecGuard == Init /\ [][GuardNext]_vars

\* the refresh endpoint
SpecEndpoint == Init /\ [][EndpointNext]_vars

\* the error middleware
SpecError == Init /\ [][ErrorNext]_vars

\* the dependency container
SpecContainer == Init /\ [][ContainerNext]_vars

\* one client that logs in and keeps refreshing
SpecSession == Init /\ [][SessionNext]_vars

\* the whole subsystem
Spec == Init /\ [][Next]_vars

\* =============================================================== claims
DomainAllowed(d) == ToLowerCase(d) = ToLowerCase(AllowedDomain)

\* the identity authenticateJWT builds from verified claims
IdentityOf(claims) ==
  [state |-> "identity", id |-> claims.id, email |-> claims.email,
   name |-> claims.name, picture |-> claims.picture, domain |-> claims.domain,
   isAuthenticated |-> TRUE]

\* C1: authenticateJWT calls next if and only if verifyToken succeeded on the
\* token extracted from the Authorization header; then req.user is the
\* verified claims' id, email, name, picture, domain with isAuthenticated and
\* req.tokenInfo the token's iat / exp and nothing is sent.  Otherwise exactly
\* one error response is sent, next is not called, no identity is attached.
C1_AuthenticateGate ==
  call.op = "authenticateJWT" =>
    LET m == call.mw
        token == extractTokenFromHeader(call.header)
        v == verifyToken(token, secretSet, call.at)
        verified == token # NoStr /\ v.ok
    IN /\ m.nextCalls = (IF verified THEN 1 ELSE 0)
       /\ verified =>
            /\ m.user = IdentityOf(v.token)
            /\ m.tokenInfo = [set |-> TRUE, issuedAt |-> v.token.iat,
                              expiresAt |-> v.token.exp]
            /\ m.responses = <<>>
       /\ ~verified =>
            /\ Len(m.responses) = 1
            /\ m.responses[1].kind = "json"
            /\ m.responses[1].status \in {401, 403}
            /\ m.user = NoUser
            /\ m.tokenInfo = NoTokenInfo

\* a request carrying a valid token went through, and one was rejected
C1_Witness ==
  /\ call.op = "authenticateJWT"
  /\ call.header.present
  /\ call.mw.nextCalls = 1
  /\ call.mw.user.id = "u1"
  /\ call.mw.tokenInfo.expiresAt > call.at

\* whether the e-mail has a domain part under JWTService.extractDomain
HasDomain(email) == email # EmptyEmail /\ Len(email) >= 2

C3_RoundTrip ==
  /\ (/\ call.op = "generateToken"
      /\ secretSet /\ call.expiresIn # "bad"
      /\ call.payload.obj /\ call.payload.id # ""
      /\ HasDomain(call.payload.email)
      /\ DomainAllowed(call.payload.email[2]))
       => call.res.ok
  /\ \A x \in issuance :
       (/\ call.op = "verifyToken"
        /\ call.str.form = "jwt"
        /\ call.str.jwt = x.token
        /\ call.at < x.token.exp)
         => /\ call.res.ok
            /\ call.res.token.id = x.payload.id
            /\ call.res.token.email = x.payload.email
            /\ call.res.token.name = x.payload.name
            /\ call.res.token.picture = x.payload.picture
            /\ call.res.token.domain = x.payload.email[2]

\* a token issued for a payload with a picture and no name was verified
C3_Witness ==
  /\ call.op = "verifyToken"
  /\ call.res.ok
  /\ \E x \in issuance :
       /\ x.token = call.str.jwt
       /\ x.payload.picture = "pic"
       /\ x.payload.name = Undef
       /\ call.res.token.picture = "pic"

\* C4: for a payload with id and a non-empty e-mail whose domain is not the
\* allowed one (an e-mail without a domain part has none that matches),
\* generateToken produces no token and fails with INVALID_DOMAIN.
C4_GenerateInvalidDomain ==
  (/\ call.op = "generateToken"
   /\ call.payload.obj
   /\ call.payload.id # ""
   /\ call.payload.email # EmptyEmail
   /\ ~(HasDomain(call.payload.email) /\ DomainAllowed(call.payload.email[2])))
    => /\ ~call.res.ok
       /\ call.res.token = NoJwt
       /\ call.res.code = "INVALID_DOMAIN"

\* C5: a token this service issued is accepted by verifyToken at every
\* instant before its expiry and rejected with TOKEN_EXPIRED (401) from its
\* expiry on; authenticateJWT never lets an expired token through.
C5_ExpiryBoundary ==
  /\ \A t \in issued :
       (call.op = "verifyToken" /\ call.str.form = "jwt" /\ call.str.jwt = t)
         => /\ call.at < t.exp => call.res.ok
            /\ call.at >= t.exp =>
                 /\ ~call.res.ok
                 /\ call.res.code = "TOKEN_EXPIRED"
                 /\ call.res.status = 401
  /\ \A t \in issued :
       (/\ call.op = "authenticateJWT"
        /\ extractTokenFromHeader(call.header).jwt = t
        /\ call.at >= t.exp)
         => call.mw.nextCalls = 0

\* a token was verified in the very second of its expiry and rejected, after
\* having been issued earlier
C5_Witness ==
  /\ call.op = "verifyToken"
  /\ call.str.jwt \in issued
  /\ call.at = call.str.jwt.exp
  /\ call.res.code = "TOKEN_EXPIRED"

\* the alterations of a token the claim C6 speaks of
Altered(t) ==
  Tampered(t)
  \cup { Resign([Content(t) EXCEPT !.iss = "other-api"]),
         Resign([Content(t) EXCEPT !.aud = "other-frontend"]) }

\* C6: whatever is altered in a currently valid token (header, payload,
\* signature, signing secret, issuer, audience), and for a string that is no
\* token at all, verifyToken does not succeed and fails with INVALID_TOKEN.
C6_TamperRejected ==
  /\ \A t \in issued :
       (/\ call.op = "verifyToken"
        /\ call.at < t.exp
        /\ call.str.form = "jwt"
        /\ call.str.jwt \in Altered(t))
         => (~call.res.ok /\ call.res.code = "INVALID_TOKEN")
  /\ (call.op = "verifyToken" /\ call.str.form = "garbage")
       => (~call.res.ok /\ call.res.code = "INVALID_TOKEN")

\* a valid token with its expiry pushed back and the signature kept was
\* presented while the original was still valid
C6_Witness ==
  /\ call.op = "verifyToken"
  /\ \E t \in issued :
       /\ call.at < t.exp
       /\ call.str.jwt = [t EXCEPT !.exp = t.exp + 1]
  /\ call.res.code = "INVALID_TOKEN"

\* a 200 answer of the userinfo endpoint that parses and has id and e-mail
FetchedProfile(r) ==
  r.net /\ r.status \in 200..299 /\ r.json /\ r.id # "" /\ r.email # EmptyEmail

\* the gateway's rule: exactly one '@', and the part after it is the allowed
\* domain up to letter case
GatewayDomainMatches(email) ==
  Len(email) = 2 /\ email[2] # "" /\ DomainAllowed(email[2])

\* C7: getUserProfile returns no profile whose e-mail domain differs from the
\* allowed domain, and every fetched profile with id and e-mail whose domain
\* does not match makes it fail with DOMAIN_RESTRICTED (403) carrying the
\* observed domain as userDomain and the configured one as allowedDomain.
C7_ProfileDomainRestricted ==
  \A r \in CbIds :
    LET c == cb[r] IN
    FetchedProfile(c.profileResp) =>
      /\ c.profile # NoProfile => GatewayDomainMatches(c.profile.email)
      /\ ~GatewayDomainMatches(c.profileResp.email) =>
           /\ c.err.code = "DOMAIN_RESTRICTED"
           /\ c.err.status = 403
           /\ c.err.allowedDomain = AllowedDomain
           /\ Len(c.profileResp.email) >= 2 => c.err.userDomain = c.profileResp.email[2]

\* rank of a step in the login flow
StepRank(step) ==
  CASE step = "exchange" -> 1
    [] step = "profile" -> 2
    [] step = "domain" -> 3
    [] step = "issue" -> 4
    [] OTHER -> 5

\* C8: in every callback request the steps happen only in the order exchange,
\* profile fetch, domain check, token issue, redirect; at most one exchange
\* call and one profile call are made, the profile call only after a
\* successful exchange, a token is issued and put into the redirect only
\* after the profile was fetched and its domain accepted, and a failure at
\* any step ends the flow without a token.
C8_LoginFlowOrder ==
  \A r \in CbIds :
    LET c == cb[r] IN
    /\ \A i, j \in 1..Len(c.steps) :
         i < j => StepRank(c.steps[i]) < StepRank(c.steps[j])
    /\ c.exchangeCalls <= 1 /\ c.profileCalls <= 1
    /\ c.profileCalls = 1 =>
         /\ c.exchangeCalls = 1
         /\ exchangeCodeForTokens(c.req.query.code, c.exchangeResp)[2].ok
    /\ c.token # NoJwt =>
         /\ c.steps = <<"exchange", "profile", "domain", "issue", "redirect">>
         /\ FetchedProfile(c.profileResp)
         /\ validateDomain(c.profileResp.email)
         /\ c.token \in issued
         /\ c.token.email = c.profileResp.email
    /\ \A k \in 1..Len(c.responses) :
         c.responses[k].hasToken =>
           (c.token # NoJwt /\ c.responses[k].token = c.token)
    /\ c.err # NoErr =>
         /\ c.pc = "done"
         /\ c.token = NoJwt
         /\ "issue" \notin { c.steps[k] : k \in 1..Len(c.steps) }
         /\ \A k \in 1..Len(c.responses) : ~c.responses[k].hasToken

\* one request went through all five steps while another failed at the
\* profile fetch after a successful exchange
C8_Witness ==
  \E r, q \in CbIds :
    /\ cb[r].steps = <<"exchange", "profile", "domain", "issue", "redirect">>
    /\ cb[r].token \in issued
    /\ cb[q].pc = "done"
    /\ cb[q].profileCalls = 1
    /\ cb[q].err.code = "GOOGLE_API_UNAVAILABLE"

\* C9: a handled callback request has exactly one response (an unfinished one
\* none), and it is a redirect to the configured front-end URL: either with
\* the signed token and the profile's id, email, name, picture, domain, or
\* with an error message.  Never a JSON error, never a propagated exception.
C9_AlwaysOneRedirect ==
  \A r \in CbIds :
    LET c == cb[r] IN
    /\ ~c.thrown
    /\ c.pc # "done" => c.responses = <<>>
    /\ c.pc = "done" =>
         /\ Len(c.responses) = 1
         /\ c.responses[1].kind = "redirect"
         /\ c.responses[1].base = FrontendUrl
         /\ \/ /\ c.responses[1].hasToken
               /\ c.responses[1].token \in issued
               /\ c.responses[1].user =
                    [id |-> c.profileResp.id, email |-> c.profileResp.email,
                     name |-> OrEmpty(c.profileResp.name),
                     picture |-> OrEmpty(c.profileResp.picture),
                     domain |-> c.profileResp.email[2]]
            \/ /\ ~c.responses[1].hasToken
               /\ c.responses[1].error # Msg("", "")

\* a POST callback ended in the code-required redirect, and a GET callback
\* whose token could not be signed ended in an error redirect
C9_Witness ==
  \E r, q \in CbIds :
    /\ cb[r].pc = "done" /\ cb[r].req.method = "POST"
    /\ cb[r].responses[1].error.text = "Authorization code is required"
    /\ cb[q].pc = "done" /\ cb[q].err.code = "TOKEN_SIGNING_ERROR"
    /\ cb[q].responses[1].kind = "redirect"

\* C10: whatever fails inside handleOAuthCallback (exchange, profile fetch,
\* domain check, signing), the message in the error redirect is sanitized:
\* it contains no text taken from the provider's error response.
C10_RedirectMessageSanitized ==
  \A r \in CbIds :
    LET c == cb[r] IN
    (c.pc = "done" /\ c.err # NoErr) =>
      \A k \in 1..Len(c.responses) : c.responses[k].error.providerText = ""

\* the texts getOAuthErrorMessage can answer with on its own
DictionaryMessages ==
  { getOAuthErrorMessage(e, "").text :
      e \in {"access_denied", "invalid_request", "unauthorized_client",
              "unsupported_response_type", "invalid_scope", "server_error",
              "temporarily_unavailable", "<any other>"} }

\* C11: a callback whose query carries a provider error parameter makes no
\* exchange (and no profile) call and is answered by one redirect whose
\* message is a text of the fixed dictionary or the default text, whatever
\* the values of error and error_description: access_denied gives the
\* cancellation text, and the provider-supplied string is never passed on.
C11_ProviderErrorDictionary ==
  \A r \in CbIds :
    LET c == cb[r] IN
    (c.pc # "idle" /\ c.req.query.error # "") =>
      /\ c.pc = "done"
      /\ c.exchangeCalls = 0 /\ c.profileCalls = 0
      /\ Len(c.responses) = 1
      /\ c.responses[1].kind = "redirect"
      /\ c.responses[1].error.text \in DictionaryMessages
      /\ c.responses[1].error.providerText = ""
      /\ c.req.query.error = "access_denied" =>
           c.responses[1].error =
             Msg("You cancelled the sign-in process. Please try again to access the application.", "")

\* C12: when verifyToken fails on a token, refreshToken on that token fails
\* with the same code and the same statusCode, returns no token, and the set
\* of tokens in circulation is what it was.
C12_RefreshFailsAsVerify ==
  /\ [](call.op = "refreshToken" =>
          LET v == verifyToken(call.str, secretSet, call.at) IN
          ~v.ok => /\ ~call.res.ok
                   /\ call.res.code = v.code
                   /\ call.res.status = v.status
                   /\ call.res.token = NoJwt)
  /\ [][(call'.op = "refreshToken" /\ ~call'.res.ok) => issuance' = issuance]_vars

\* refreshing a token this service issued, after its expiry, was refused with
\* TOKEN_EXPIRED / 401
C12_Witness ==
  /\ call.op = "refreshToken"
  /\ call.str.jwt \in issued
  /\ call.at >= call.str.jwt.exp
  /\ call.res.code = "TOKEN_EXPIRED"
  /\ call.res.status = 401

\* the identity claims of two tokens agree
SameIdentity(a, b) ==
  /\ a.id = b.id /\ a.email = b.email /\ a.name = b.name
  /\ a.picture = b.picture /\ a.domain = b.domain

\* C13: refreshing a token that verifies yields a token that verifies and
\* carries the same id, email, name, picture and domain, whether or not the
\* token presented came out of a refresh itself; its iat and exp are those of the moment of the
\* refresh and its iss / aud the service's own, not values copied from the
\* old token.
C13_RefreshPreservesIdentity ==
  /\ (call.op = "refreshToken" /\ verifyToken(call.str, secretSet, call.at).ok) =>
       /\ call.res.ok
       /\ SameIdentity(call.res.token, call.str.jwt)
       /\ verifyToken(JwtStr(call.res.token, FALSE), secretSet, call.at).ok
       /\ call.res.token.iat = call.at
       /\ call.res.token.exp = call.at + DefaultTTL
       /\ call.res.token.iss = Issuer /\ call.res.token.aud = Audience

\* a token carrying a name was refreshed, and the result refreshed again at
\* a later instant
C13_Witness ==
  /\ call.op = "refreshToken"
  /\ call.res.ok
  /\ call.res.token.name = "Ann"
  /\ call.res.token.iat > call.str.jwt.iat
  /\ \E x \in issuance : x.token = call.str.jwt /\ x.refreshed

\* C14: whenever refreshToken succeeds on a token, whatever span the token
\* was issued with and whenever the refresh happens, the new token expires
\* strictly later than the old one.
C14_RefreshExpiresLater ==
  (call.op = "refreshToken" /\ call.res.ok) =>
    call.res.token.exp > call.str.jwt.exp

\* the Authorization header carrying token t under the Bearer scheme
BearerHeader(t) == [present |-> TRUE, basic |-> FALSE, str |-> JwtStr(t, TRUE)]

\* C15: logout answers with success and leaves the server's state as it
\* was; and whatever logouts, refreshes and other requests have happened, every
\* token issued so far is accepted by verifyToken and let through by
\* authenticateJWT at every instant before its own expiry.
C15_NoRevocation ==
  /\ [](call.op = "logout" => (call.res.ok /\ call.res.status = 200))
  /\ [][call'.op = "logout" => UNCHANGED <<now, secretSet, issuance, cb, session, handled, container>>]_vars
  /\ [](\A t \in issued :
          now < t.exp =>
            /\ verifyToken(JwtStr(t, FALSE), secretSet, now).ok
            /\ authenticateJWT(BearerHeader(t), secretSet, now).nextCalls = 1)

\* a logout happened while an older token of an identity was still unexpired
\* after a newer one had been obtained for it by refresh
C15_Witness ==
  /\ call.op = "logout"
  /\ \E x, y \in issuance :
       /\ x.refreshed
       /\ SameIdentity(x.token, y.token)
       /\ y.token.iat < x.token.iat
       /\ now < y.token.exp

\* C16: a request without Authorization header is answered by authenticateJWT
\* with status 401 and the machine-readable code missing_token (in either
\* letter case); verifyToken and next are not called.
C16_MissingHeaderCode ==
  (call.op = "authenticateJWT" /\ ~call.header.present) =>
    /\ call.mw.verify = NotCalled
    /\ call.mw.nextCalls = 0
    /\ Len(call.mw.responses) = 1
    /\ call.mw.responses[1].status = 401
    /\ call.mw.responses[1].code \in {"missing_token", "MISSING_TOKEN"}

\* C17: when verifyToken fails, the status of the response authenticateJWT
\* sends is given by the table: TOKEN_EXPIRED 401, INVALID_TOKEN /
\* INVALID_TOKEN_FORMAT / INVALID_TOKEN_PAYLOAD 401, EMPTY_TOKEN 401,
\* INVALID_DOMAIN 403, TOKEN_NOT_ACTIVE 401, and for any other error the
\* error's own statusCode if it has one, else 401.
C17_StatusTable ==
  LET StatusByTable(err) ==
        CASE err.code = "TOKEN_EXPIRED" -> 401
          [] err.code \in {"INVALID_TOKEN", "INVALID_TOKEN_FORMAT",
                           "INVALID_TOKEN_PAYLOAD"} -> 401
          [] err.code = "EMPTY_TOKEN" -> 401
          [] err.code = "INVALID_DOMAIN" -> 403
          [] err.code = "TOKEN_NOT_ACTIVE" -> 401
          [] OTHER -> IF err.status # 0 THEN err.status ELSE 401
  IN (call.op = "authenticateJWT" /\ call.mw.verify # NotCalled
        /\ ~call.mw.verify.ok) =>
       /\ Len(call.mw.responses) = 1
       /\ call.mw.responses[1].status = StatusByTable(call.mw.verify)

\* C18: verifyToken rejects every empty input, that is the empty string or
\* nothing but whitespace, with or without a leading "Bearer ", with
\* EMPTY_TOKEN.
C18_EmptyInputRejected ==
  (call.op = "verifyToken" /\ call.str.form \in {"empty", "blank"}) =>
    (~call.res.ok /\ call.res.code = "EMPTY_TOKEN")

\* C19: the outcome of the exchange is given by the provider's answer:
\* connection failure or timeout -> OAUTH_SERVICE_UNAVAILABLE; 400 with
\* invalid_grant -> INVALID_AUTH_CODE; 400 with invalid_client ->
\* OAUTH_CONFIG_ERROR; 401 -> OAUTH_UNAUTHORIZED; 500 and above -> the kind a
\* connection failure gives; 200 with a body that does not parse or has no
\* access_token -> OAUTH_RESPONSE_ERROR; and a token set results exactly
\* from a 200 answer with access_token.
C19_ExchangeClassification ==
  \A r \in CbIds :
    LET c == cb[r]
        a == c.exchangeResp
    IN a # NoTokenResp =>
         /\ ~a.net => c.err.code = "OAUTH_SERVICE_UNAVAILABLE"
         /\ (a.net /\ a.status = 400 /\ a.json /\ a.error = "invalid_grant")
              => c.err.code = "INVALID_AUTH_CODE"
         /\ (a.net /\ a.status = 400 /\ a.json /\ a.error = "invalid_client")
              => c.err.code = "OAUTH_CONFIG_ERROR"
         /\ (a.net /\ a.status = 401) => c.err.code = "OAUTH_UNAUTHORIZED"
         /\ (a.net /\ a.status >= 500) => c.err.code = "OAUTH_SERVICE_UNAVAILABLE"
         /\ (a.net /\ a.status = 200 /\ (~a.json \/ a.access_token = ""))
              => c.err.code = "OAUTH_RESPONSE_ERROR"
         /\ c.tokenSet.ok <=>
              (a.net /\ a.status = 200 /\ a.json /\ a.access_token # "")

\* C20: every error GoogleOAuthService or JWTService raises has a code and a
\* statusCode, the statusCode is the one the taxonomy gives for the code, and
\* no code is raised with two different statusCodes.
C20_StatusFunctionOfCode ==
  LET \* the statusCode the taxonomy gives for a code (0: it is silent)
      TaxonomyStatus(code) ==
        CASE code = "INVALID_AUTH_CODE" -> 400
          [] code = "OAUTH_CONFIG_ERROR" -> 500
          [] code \in {"OAUTH_SERVICE_UNAVAILABLE", "GOOGLE_API_UNAVAILABLE"} -> 503
          [] code = "INVALID_ACCESS_TOKEN" -> 401
          [] code = "INSUFFICIENT_PERMISSIONS" -> 403
          [] code = "DOMAIN_RESTRICTED" -> 403
          [] code \in {"INCOMPLETE_PROFILE_DATA", "OAUTH_RESPONSE_ERROR",
                       "GOOGLE_API_RESPONSE_ERROR"} -> 502
          [] code \in {"TOKEN_EXPIRED", "INVALID_TOKEN", "TOKEN_NOT_ACTIVE",
                       "EMPTY_TOKEN"} -> 401
          [] code = "TOKEN_SIGNING_ERROR" -> 500
          [] OTHER -> 0
      \* code and statusCode of the errors the two services have raised
      RaisedErrors ==
        { [code |-> cb[r].err.code, status |-> cb[r].err.status] :
            r \in { x \in CbIds : cb[x].err # NoErr } }
        \cup (IF call.op \in {"generateToken", "verifyToken", "refreshToken"}
                 /\ ~call.res.ok
              THEN {[code |-> call.res.code, status |-> call.res.status]}
              ELSE {})
  IN /\ \A e \in RaisedErrors :
          /\ e.code # "" /\ e.status # 0
          /\ TaxonomyStatus(e.code) # 0 => e.status = TaxonomyStatus(e.code)
     /\ \A e1, e2 \in RaisedErrors : e1.code = e2.code => e1.status = e2.status

\* C21: the refresh endpoint answers 401 when the Authorization header is
\* missing or not of the Bearer scheme and when refreshToken fails with
\* TOKEN_EXPIRED, INVALID_TOKEN, TOKEN_NOT_ACTIVE or EMPTY_TOKEN; it answers
\* 200 exactly when the presented token is currently valid, and then with the
\* new token and the identity embedded in it.
C21_RefreshEndpointStatus ==
  call.op = "refreshEndpoint" =>
    LET h == call.header
        bearer == h.present /\ ~h.basic /\ h.str.bearer
        v == verifyToken([h.str EXCEPT !.bearer = FALSE], secretSet, call.at)
    IN /\ ~bearer => call.http.status = 401
       /\ (bearer /\ ~v.ok /\ v.code \in {"TOKEN_EXPIRED", "INVALID_TOKEN",
                                           "TOKEN_NOT_ACTIVE", "EMPTY_TOKEN"})
            => call.http.status = 401
       /\ call.http.status = 200 <=> (bearer /\ v.ok)
       /\ call.http.status = 200 =>
            /\ call.http.token \in issued
            /\ SameIdentity(call.http.user, call.http.token)
            /\ SameIdentity(call.http.user, v.token)

\* C22: optionalAuthentication calls next exactly once and sends nothing,
\* whatever the request; req.user is an identity with isAuthenticated exactly
\* when a token was present and verifyToken accepted it, and null otherwise.
C22_OptionalNeverRejects ==
  call.op = "optionalAuthentication" =>
    LET m == call.mw
        token == extractTokenFromHeader(call.header)
        v == verifyToken(token, secretSet, call.at)
        verified == token # NoStr /\ v.ok
    IN /\ m.nextCalls = 1
       /\ m.responses = <<>>
       /\ verified => (m.user = IdentityOf(v.token) /\ m.user.isAuthenticated)
       /\ ~verified => m.user = NullUser

\* an expired token was presented and the request went on without identity
C22_Witness ==
  /\ call.op = "optionalAuthentication"
  /\ call.mw.verify.code = "TOKEN_EXPIRED"
  /\ call.mw.user = NullUser
  /\ call.mw.nextCalls = 1

\* C26: the two domain checks agree in the direction that matters: an e-mail
\* that generateToken or verifyToken accepts is an e-mail that
\* GoogleOAuthService.validateDomain accepts (exactly one '@', allowed
\* domain after it).
C26_DomainChecksAgree ==
  /\ (call.op = "generateToken" /\ call.res.ok) => validateDomain(call.payload.email)
  /\ (call.op = "verifyToken" /\ call.res.ok) => validateDomain(call.res.token.email)

\* C27: a request that authenticateJWT lets through is also let through by
\* requireDomain(allowed domain) applied after it, whatever the letter case
\* of the domain in the user's e-mail.
C27_GuardAdmitsAuthenticated ==
  (call.op = "guardedRequest" /\ call.mw.nextCalls = 1) =>
    /\ call.guard.ran
    /\ call.guard.nextCalls = 1
    /\ call.guard.responses = <<>>

C28_PostBodyAccepted ==
  \A r \in CbIds :
    LET c == cb[r] IN
    (c.pc # "idle" /\ c.req.method = "POST" /\ c.req.body.code # ""
       /\ c.req.body.error = "") =>
      /\ c.exchangeCalls = 1
      /\ (/\ c.pc = "done"
          /\ exchangeCodeForTokens(c.req.body.code, c.exchangeResp)[2].ok
          /\ FetchedProfile(c.profileResp)
          /\ validateDomain(c.profileResp.email)
          /\ secretSet)
           => (Len(c.responses) = 1 /\ c.responses[1].hasToken)

\* C25: the error handler sends exactly one response per error, and for an
\* error that is no Prisma known-request error, no Prisma validation error
\* and not named 'ValidationError' the response is 500 with the fixed body
\* {error: 'Internal server error', code: 'INTERNAL_ERROR', timestamp, path},
\* whatever the error's own message, code or issues are.
C25_GenericErrorsHidden ==
  handled.ran =>
    /\ Len(handled.responses) = 1
    /\ (/\ handled.error.class \notin
             {"PrismaClientKnownRequestError", "PrismaClientValidationError"}
        /\ handled.error.name # "ValidationError")
         => /\ handled.responses[1].status = 500
            /\ handled.responses[1].body.error = "Internal server error"
            /\ handled.responses[1].body.code = "INTERNAL_ERROR"
            /\ handled.responses[1].body.path = handled.path
            /\ handled.responses[1].body.timestamp = handled.at
            /\ handled.responses[1].body.details = NoDetails

\* a plain Error with an internal message was answered with the fixed body
C25_Witness ==
  /\ handled.ran
  /\ handled.error.class = "Error" /\ handled.error.name = "NotFoundError"
  /\ handled.error.message = "connect ECONNREFUSED db:5432"
  /\ handled.responses[1].status = 500
  /\ handled.responses[1].body.error = "Internal server error"

\* C29: refresh has no reuse, rotation or absolute-lifetime control: however
\* long ago the login was and however often the client has refreshed, every
\* token of the session that is still valid can be refreshed, the refresh
\* yields a valid token, and that token expires a full default lifetime
\* after the instant of the refresh.
C29_RefreshUnlimited ==
  session.active =>
    /\ \A t \in {session.first, session.latest} :
         verifyToken(JwtStr(t, FALSE), secretSet, now).ok =>
           LET r == refreshToken(JwtStr(t, FALSE), secretSet, now) IN
           /\ r.ok
           /\ r.token.exp = now + DefaultTTL
           /\ verifyToken(JwtStr(r.token, FALSE), secretSet, now).ok
           /\ SameIdentity(r.token, t)
    /\ session.latest.exp >= session.first.exp
    /\ session.latest.exp <= now + DefaultTTL

\* after three refreshes of the latest token and two of the first one, the
\* session's token is valid more than two default lifetimes after the login
C29_Witness ==
  /\ session.active
  /\ session.refreshes >= 3
  /\ session.reuses >= 2
  /\ session.latest.exp > session.loginAt + 2 * DefaultTTL
  /\ verifyToken(JwtStr(session.latest, FALSE), secretSet, now).ok

\* C30: has(name) is true exactly for the names registered since the last
\* clear, getRegisteredServices returns exactly those names, and resolve
\* succeeds only for a registered name.
C30_RegistryConsistent ==
  /\ \A n \in ServiceNames :
       has(container, n) <=> n \in container.registered
  /\ { getRegisteredServices(container)[i] :
         i \in 1..Len(getRegisteredServices(container)) } = container.registered
  /\ (container.last.op = "resolve" /\ ~container.last.threw)
       => container.last.name \in container.registered

====
